---- MODULE Spec2Model ----
(***************************************************************************)
(* Model of gmail-assistant-mcp: the mailbox client (gmail_client.py), the *)
(* guidelines helper (helpers/prompt_builder.py) and the three tool        *)
(* handlers (tools/*.py, server.py call_tool).                             *)
(*                                                                         *)
(* Strings are tuples of one-character strings.  The IMAP server and the   *)
(* other collaborators are the environment: every command's outcome is an  *)
(* input of the action, limited by what imaplib allows in the session's    *)
(* state (a command that is illegal in the state always raises).           *)
(***************************************************************************)
EXTENDS Integers, Sequences, FiniteSets, TLC

\* Bound: the number of messages the INBOX holds.
MaxMsgs == 2

\* Bound: the number of parts a multi-part message or container holds.
MaxParts == 2

\* Default of the max_results argument (arguments.get("max_results", 10)).
DefaultMaxResults == 10

\* self.email_address, the account owner's address.
EMAIL_ADDRESS == <<"m", "@", "x">>

OTHER_ADDRESS == <<"o", "@", "x">>

--------------------------------------------------------------------------
(* Pure helpers of the client *)

LowerChar(c) == IF c = "M" THEN "m" ELSE IF c = "O" THEN "o" ELSE IF c = "X" THEN "x" ELSE c

\* str.lower()
Lower(s) == [i \in 1..Len(s) |-> LowerChar(s[i])]

\* Python's `needle in hay` on strings: substring search.
Contains(hay, needle) ==
    \E i \in 0..(Len(hay) - Len(needle)) : SubSeq(hay, i + 1, i + Len(needle)) = needle

\* Python's s[start:] for any integer start.
PySliceFrom(s, start) ==
    LET n == Len(s)
        from == IF start < 0 THEN (IF n + start < 0 THEN 0 ELSE n + start)
                ELSE (IF start > n THEN n ELSE start)
    IN  SubSeq(s, from + 1, n)

\* email_ids[-max_results:]  ("Get latest N emails")
LatestN(email_ids, max_results) == PySliceFrom(email_ids, 0 - max_results)

\* Lines 92-98 of get_unread_emails for a client whose self.email_address is
\* email_address: `in` on the lowered strings.
Classify(email_address, to_field, cc_field) ==
    IF Contains(Lower(to_field), Lower(email_address)) THEN "to_me"
    ELSE IF Contains(Lower(cc_field), Lower(email_address)) THEN "cc_me"
    ELSE "to_me"

\* The bucket of a parsed message: lines 92-98 of get_unread_emails.
Bucket(to_field, cc_field) == Classify(EMAIL_ADDRESS, to_field, cc_field)

--------------------------------------------------------------------------
(* The messages of the INBOX.  `ok` is FALSE for a message whose content   *)
(* cannot be parsed or decoded (the parsing code raises on it).            *)

SUBJECT == <<"H", "i">>

\* A missing (None) argument.
None == <<"None">>

MsgToMe    == [to |-> EMAIL_ADDRESS, cc |-> <<>>, subject |-> SUBJECT, ok |-> TRUE]
MsgCcMe    == [to |-> OTHER_ADDRESS, cc |-> EMAIL_ADDRESS, subject |-> SUBJECT, ok |-> TRUE]
MsgBad     == [to |-> EMAIL_ADDRESS, cc |-> <<>>, subject |-> SUBJECT, ok |-> FALSE]

Messages == {MsgToMe, MsgCcMe, MsgBad}

Inboxes == UNION {[1..n -> Messages] : n \in 0..MaxMsgs}

VARIABLES
    mail,       \* the INBOX on the server: sequence of messages, index = id
    seen,       \* seen[i]: the server's \Seen flag of message i
    imap,       \* self.imap: "None" or "IMAP4_SSL"
    state,      \* imaplib's state of the session object self.imap
    selected,   \* the mailbox the session has selected, "" if none
    alive,      \* the session is connected and authenticated on the server
    res,        \* the last client call: its inputs, outcomes and result
    service,    \* GoogleDocsHelper.service is built (authenticate() has succeeded)
    h,          \* the tool request being handled, or the last one handled
    fn,         \* the last application of a pure function: its input and output
    task,       \* task[t]: the tool request that task t of the event loop runs
    running     \* the task that holds the event loop, 0 when the loop is free

vars == <<mail, seen, imap, state, selected, alive, res, service, h, fn, task, running>>

--------------------------------------------------------------------------
(* The IMAP session.  A command raises when imaplib finds it illegal in    *)
(* the session's state or when the connection is not an authenticated one; *)
(* otherwise the server answers OK or NO, or the command raises (a BAD     *)
(* answer, a dropped connection).                                          *)

Status == {"OK", "NO", "raise"}
ConnectOutcomes == {"ok", "ctor_raise", "login_raise"}

Session == [imap |-> imap, state |-> state, selected |-> selected, alive |-> alive]

Cmd(s, legal, e) == IF s.state \in legal /\ s.alive THEN e ELSE "raise"

\* self.imap.select(mailbox): the status is returned, never raised for NO.
Select(s, mailbox, e) ==
    LET r == Cmd(s, {"AUTH", "SELECTED"}, e)
    IN  [r |-> r,
         s |-> IF r = "OK" THEN [s EXCEPT !.state = "SELECTED", !.selected = mailbox]
               ELSE IF r = "NO" THEN [s EXCEPT !.state = "AUTH", !.selected = ""]
               ELSE s]

\* connect(): a new session object is stored before the login is tried.
Connect(s, c) ==
    IF c = "ctor_raise" THEN [outcome |-> "raise", opened |-> 0, s |-> s]
    ELSE IF c = "login_raise"
    THEN [outcome |-> "raise", opened |-> 1,
          s |-> [imap |-> "IMAP4_SSL", state |-> "NONAUTH", selected |-> "", alive |-> FALSE]]
    ELSE [outcome |-> "return", opened |-> 1,
          s |-> [imap |-> "IMAP4_SSL", state |-> "AUTH", selected |-> "", alive |-> TRUE]]

\* Mutant: connect() is called whether or not a session is held.
EnsureConnectedAlways(s, c) == Connect(s, c)

\* `if not self.imap: self.connect()`
EnsureConnected(s, c) ==
    IF s.imap = "None" THEN Connect(s, c) ELSE [outcome |-> "return", opened |-> 0, s |-> s]

\* What a call records of the session it found.
Before == [imap |-> imap, alive |-> alive]

NoSteps == [smtp |-> "-", connect |-> "-", select |-> "-", search |-> "-",
            append |-> "-", quit |-> "-"]

NoRes == [op |-> "none", outcome |-> "none", max_results |-> 0, found |-> <<>>,
          ids |-> <<>>, fetch |-> <<>>, to_me |-> <<>>, cc_me |-> <<>>,
          steps |-> NoSteps, appended |-> FALSE, smtp |-> "none", opened |-> 0,
          before |-> [imap |-> "None", alive |-> FALSE], subject |-> <<>>]

--------------------------------------------------------------------------
(* get_unread_emails *)

\* The ids the search for UNSEEN returns: ascending sequence numbers.
RECURSIVE UnseenFrom(_, _)
UnseenFrom(sn, i) ==
    IF i > Len(mail) THEN <<>>
    ELSE (IF sn[i] THEN <<>> ELSE <<i>>) \o UnseenFrom(sn, i + 1)

Unseen == UnseenFrom(seen, 1)

\* One iteration of `for email_id in email_ids`; fr is the fetch's outcome.
\* A fetch that answers OK sets the message's \Seen flag (RFC822, no PEEK,
\* in a mailbox selected read-write).
ProcessEmail(acc, email_id, fr) ==
    IF fr # "OK" THEN acc
    ELSE LET a == [acc EXCEPT !.seen[email_id] = TRUE]
             m == mail[email_id]
         IN  IF ~m.ok THEN a
             ELSE IF Bucket(m.to, m.cc) = "to_me"
                  THEN [a EXCEPT !.to_me = Append(@, email_id)]
                  ELSE [a EXCEPT !.cc_me = Append(@, email_id)]

\* Mutant: the first failing message ends the loop.
RECURSIVE FetchLoopAborts(_, _, _, _)
FetchLoopAborts(email_ids, f, k, acc) ==
    IF k > Len(email_ids) THEN acc
    ELSE IF f[k] = "raise" \/ (f[k] = "OK" /\ ~mail[email_ids[k]].ok)
         THEN ProcessEmail(acc, email_ids[k], f[k])
         ELSE FetchLoopAborts(email_ids, f, k + 1, ProcessEmail(acc, email_ids[k], f[k]))

RECURSIVE FetchLoop(_, _, _, _)
FetchLoop(email_ids, f, k, acc) ==
    IF k > Len(email_ids) THEN acc
    ELSE FetchLoop(email_ids, f, k + 1, ProcessEmail(acc, email_ids[k], f[k]))

\* Mutant: a search status that is not OK is raised.
SearchNotOKRaises(r) == [r EXCEPT !.outcome = "raise"]

\* `if status != "OK": return {"to_me": [], "cc_me": []}`
SearchNotOK(r) == [r EXCEPT !.outcome = "return", !.to_me = <<>>, !.cc_me = <<>>]

\* get_unread_emails(max_results): c, sel, sr are the outcomes of connect,
\* select and search, f[k] the outcome of the k-th fetch.  max_results is
\* [int, n]: an integer n, or a number that is no integer.
GetUnreadEmails(max_results, c, sel, sr, f) ==
    LET con  == EnsureConnected(Session, c)
        selR == Select(con.s, "INBOX", sel)
        srR  == Cmd(selR.s, {"SELECTED"}, sr)
        found == Unseen
        ids  == LatestN(found, max_results.n)
        loop == FetchLoop(ids, f, 1, [to_me |-> <<>>, cc_me |-> <<>>, seen |-> seen])
        base == [NoRes EXCEPT !.op = "get_unread_emails", !.max_results = max_results.n,
                              !.opened = con.opened, !.before = Before,
                              !.steps.connect = IF imap = "None" THEN c ELSE "-"]
    IN  IF con.outcome = "raise"
        THEN [s |-> con.s, seen |-> seen,
              res |-> [base EXCEPT !.outcome = "raise"]]
        ELSE IF selR.r = "raise"
        THEN [s |-> selR.s, seen |-> seen,
              res |-> [base EXCEPT !.outcome = "raise", !.steps.select = selR.r]]
        ELSE IF srR = "raise"
        THEN [s |-> selR.s, seen |-> seen,
              res |-> [base EXCEPT !.outcome = "raise", !.steps.select = selR.r,
                                   !.steps.search = srR]]
        ELSE IF srR # "OK"
        THEN [s |-> selR.s, seen |-> seen,
              res |-> SearchNotOK([base EXCEPT !.steps.select = selR.r,
                                               !.steps.search = srR])]
        ELSE IF ~max_results.int
        THEN [s |-> selR.s, seen |-> seen,
              res |-> [base EXCEPT !.outcome = "raise", !.steps.select = selR.r,
                                   !.steps.search = srR, !.found = found]]
        ELSE [s |-> selR.s, seen |-> loop.seen,
              res |-> [base EXCEPT !.outcome = "return", !.steps.select = selR.r,
                                   !.steps.search = srR, !.found = found, !.ids = ids,
                                   !.fetch = f, !.to_me = loop.to_me,
                                   !.cc_me = loop.cc_me]]

--------------------------------------------------------------------------
(* _get_email_body.  A part is a leaf with a content type and a payload    *)
(* (given here as the text its decoding yields), or a container of parts.  *)

Leaf(content_type, payload) ==
    [is_multipart |-> FALSE, content_type |-> content_type, payload |-> payload,
     parts |-> <<>>]

Multipart(parts) ==
    [is_multipart |-> TRUE, content_type |-> "multipart/mixed", payload |-> <<>>,
     parts |-> parts]

PlainA == Leaf("text/plain", <<"a">>)
PlainB == Leaf("text/plain", <<"b">>)
Html   == Leaf("text/html", <<"<", "p", ">">>)

Leaves == {PlainA, PlainB, Html}

SeqsUpTo(S, n) == UNION {[1..k -> S] : k \in 0..n}

\* Containers of leaves, and messages that may hold such containers.
Containers == {Multipart(ps) : ps \in SeqsUpTo(Leaves, MaxParts)}

MimeMessages ==
    Leaves \cup {Multipart(ps) : ps \in SeqsUpTo(Leaves \cup Containers, MaxParts)}

\* Mutant: the parts are visited level by level.
RECURSIVE LevelOrder(_)
LevelOrder(queue) ==
    IF queue = <<>> THEN <<>>
    ELSE <<Head(queue)>> \o LevelOrder(Tail(queue) \o Head(queue).parts)

WalkBreadthFirst(part) == LevelOrder(<<part>>)

\* email.message.Message.walk(): the part itself, then the walk of each of
\* its subparts in order.
RECURSIVE Walk(_)
RECURSIVE WalkAll(_)
Walk(part) ==
    <<part>> \o (IF part.is_multipart THEN WalkAll(part.parts) ELSE <<>>)

WalkAll(parts) ==
    IF parts = <<>> THEN <<>> ELSE Walk(Head(parts)) \o WalkAll(Tail(parts))

\* _get_email_body(msg)
GetEmailBody(msg) ==
    IF msg.is_multipart
    THEN LET w == Walk(msg)
             plain == {i \in 1..Len(w) : w[i].content_type = "text/plain"}
         IN  IF plain = {} THEN <<>>
             ELSE w[CHOOSE i \in plain : \A j \in plain : i <= j].payload
    ELSE msg.payload

--------------------------------------------------------------------------
(* create_draft_reply *)

\* str.startswith
StartsWith(s, prefix) == Len(s) >= Len(prefix) /\ SubSeq(s, 1, Len(prefix)) = prefix

\* Mutant: the prefix is added to every subject.
ReplySubjectAlways(subject) == <<"R", "e", ":", " ">> \o subject

\* msg['Subject']: f"Re: {subject}" if not subject.startswith("Re:") else subject
ReplySubject(subject) ==
    IF StartsWith(subject, <<"R", "e", ":">>) THEN subject
    ELSE <<"R", "e", ":", " ">> \o subject

SmtpOutcomes == {"ok", "ctor_raise", "login_raise"}

\* create_draft_reply(to_email, subject, body): e gives the outcomes of the
\* SMTP login, the IMAP connect, select and append, and smtp.quit().  The
\* statuses select and append return are not looked at.
CreateDraftReply(to_email, subject, body, e) ==
    LET con  == EnsureConnected(Session, e.connect)
        selR == Select(con.s, "[Gmail]/Drafts", e.select)
        appR == Cmd(selR.s, {"AUTH", "SELECTED"}, e.append)
        base == [NoRes EXCEPT !.op = "create_draft_reply", !.before = Before,
                              !.steps.smtp = e.smtp]
        b1   == [base EXCEPT !.smtp = "open"]
        b2   == [b1 EXCEPT !.subject = ReplySubject(subject), !.opened = con.opened,
                           !.steps.connect = IF imap = "None" THEN e.connect ELSE "-"]
        b3   == [b2 EXCEPT !.steps.select = selR.r]
        b4   == [b3 EXCEPT !.steps.append = appR, !.appended = (appR = "OK")]
    IN  IF e.smtp = "ctor_raise"
        THEN [s |-> Session, res |-> [base EXCEPT !.outcome = "raise"]]
        ELSE IF e.smtp = "login_raise" \/ subject = None
        THEN [s |-> Session, res |-> [b1 EXCEPT !.outcome = "raise"]]
        ELSE IF con.outcome = "raise"
        THEN [s |-> con.s, res |-> [b2 EXCEPT !.outcome = "raise"]]
        ELSE IF selR.r = "raise"
        THEN [s |-> selR.s, res |-> [b3 EXCEPT !.outcome = "raise"]]
        ELSE IF appR = "raise"
        THEN [s |-> selR.s, res |-> [b4 EXCEPT !.outcome = "raise"]]
        ELSE IF e.quit = "raise"
        THEN [s |-> selR.s, res |-> [b4 EXCEPT !.outcome = "raise", !.smtp = "closed",
                                               !.steps.quit = "raise"]]
        ELSE [s |-> selR.s, res |-> [b4 EXCEPT !.outcome = "return", !.smtp = "closed",
                                               !.steps.quit = "ok"]]

--------------------------------------------------------------------------
(* close *)

\* close(): `if self.imap:` then imap.close() and imap.logout().  imaplib's
\* close() leaves the session in state AUTH whether it returns or raises;
\* logout() sets LOGOUT first.  self.imap is not reset.
Close(cl, lo) ==
    LET s    == Session
        clR  == Cmd(s, {"SELECTED"}, cl)
        s1   == [s EXCEPT !.state = "AUTH", !.selected = ""]
        s2   == [s1 EXCEPT !.state = "LOGOUT", !.alive = (lo = "raise" /\ s.alive)]
        base == [NoRes EXCEPT !.op = "close", !.before = Before]
    IN  IF s.imap = "None"
        THEN [s |-> s, res |-> [base EXCEPT !.outcome = "return"]]
        ELSE IF clR = "raise"
        THEN [s |-> s1, res |-> [base EXCEPT !.outcome = "raise"]]
        ELSE IF lo = "raise"
        THEN [s |-> s2, res |-> [base EXCEPT !.outcome = "raise"]]
        ELSE [s |-> s2, res |-> [base EXCEPT !.outcome = "return"]]

--------------------------------------------------------------------------
(* Guidelines and prompt *)

GUIDELINES == <<"G">>

DocOutcomes == {"ok", "ok_empty", "auth_raise", "fetch_raise"}

\* GoogleDocsHelper.get_document_text: authenticates when no service is
\* built yet, then fetches; both may raise.
GetDocumentText(d) ==
    IF ~service /\ d = "auth_raise" THEN [outcome |-> "raise", text |-> <<>>, service |-> FALSE]
    ELSE IF d = "fetch_raise" THEN [outcome |-> "raise", text |-> <<>>, service |-> TRUE]
    ELSE [outcome |-> "return", text |-> IF d = "ok_empty" THEN <<>> ELSE GUIDELINES,
          service |-> TRUE]

\* Mutant: a failing document fetch is not caught.
FetchGuidelinesNoCatch(google_docs_helper, guidelines_doc_id, d) ==
    LET doc == GetDocumentText(d)
    IN  IF ~google_docs_helper
        THEN [outcome |-> "return", text |-> <<>>, service |-> service, src |-> "absent", fetches |-> 0]
        ELSE IF ~guidelines_doc_id
        THEN [outcome |-> "return", text |-> <<>>, service |-> service, src |-> "unset", fetches |-> 0]
        ELSE IF doc.outcome = "raise"
        THEN [outcome |-> "raise", text |-> <<>>, service |-> doc.service, src |-> "failed", fetches |-> 1]
        ELSE [outcome |-> "return", text |-> doc.text, service |-> doc.service, src |-> "ok", fetches |-> 1]

\* fetch_guidelines(google_docs_helper, guidelines_doc_id): "" when either is
\* missing or when the fetch raises.
FetchGuidelines(google_docs_helper, guidelines_doc_id, d) ==
    LET doc == GetDocumentText(d)
    IN  IF ~google_docs_helper
        THEN [outcome |-> "return", text |-> <<>>, service |-> service, src |-> "absent", fetches |-> 0]
        ELSE IF ~guidelines_doc_id
        THEN [outcome |-> "return", text |-> <<>>, service |-> service, src |-> "unset", fetches |-> 0]
        ELSE IF doc.outcome = "raise"
        THEN [outcome |-> "return", text |-> <<>>, service |-> doc.service, src |-> "failed", fetches |-> 1]
        ELSE [outcome |-> "return", text |-> doc.text, service |-> doc.service, src |-> "ok", fetches |-> 1]

\* build_reply_prompt: the guidelines section is there iff guidelines is non-empty.
BuildReplyPrompt(sender, subject, email_content, guidelines) ==
    [sender |-> sender, subject |-> subject, email_content |-> email_content,
     guidelines |-> IF guidelines # <<>> THEN <<"IMPORTANT">> \o guidelines ELSE <<>>]

--------------------------------------------------------------------------
(* The tool handlers *)

NoReq == [tool |-> "none", pc |-> "idle", result |-> "none", text |-> "none",
          to_me |-> <<>>, cc_me |-> <<>>, k |-> 0, results |-> <<>>, cause |-> <<>>,
          get |-> "-", guidelines |-> <<>>, prompt |-> <<>>, gsrc |-> "-",
          gen |-> "-", draft |-> "-",
          genCalls |-> 0, guideFetches |-> 0, draftCalls |-> 0]

Text(r, text) == [r EXCEPT !.pc = "done", !.result = "text", !.text = text]

\* Mutant: the handler has no failure boundary.
ListUnseenResponseNoCatch(r, outcome) ==
    IF outcome = "raise" THEN [r EXCEPT !.pc = "done", !.result = "raise"]
    ELSE Text(r, "UNREAD EMAILS")

\* "list unseen": try: get_unread_emails, format; except Exception: error text.
ListUnseenResponse(r, outcome) ==
    IF outcome = "raise" THEN Text(r, "Error fetching emails") ELSE Text(r, "UNREAD EMAILS")

\* "draft one reply": the try covers guidelines, generation and the draft.
DraftOneResponse(r, outcome) ==
    IF outcome = "raise" THEN Text(r, "Error creating draft reply")
    ELSE Text(r, "Draft reply created successfully")

\* "draft-all-to-me": the outer except.
DraftAllError(r, outcome) ==
    IF outcome = "raise" THEN Text(r, "Error") ELSE r

\* Mutant: the empty bucket is not short-circuited.
NothingToDoNever(to_me_emails) == FALSE

\* `if not to_me_emails: return ...`
NothingToDo(to_me_emails) == to_me_emails = <<>>

\* One iteration of `for email_item in to_me_emails`: gen is the outcome of
\* the reply generation, draft the outcome of create_draft_reply (None when
\* it was not called).
DraftStatus(gen, draft) ==
    IF gen = "raise" \/ draft = "raise" THEN "Failed" ELSE "Draft created"

\* Why a message of the batch failed, if it did: its generation raised, its
\* draft call raised, or the draft call returned without the append answering OK.
Cause(gen, r) ==
    IF gen = "raise" THEN "generation"
    ELSE IF r.outcome = "raise" THEN "draft_raised"
    ELSE IF ~r.appended THEN "draft_not_appended"
    ELSE "ok"

\* An integer max_results.
IntArg(n) == [int |-> TRUE, n |-> n]

MaxResultsArgs ==
    {IntArg(n) : n \in 0..MaxMsgs} \cup {IntArg(DefaultMaxResults), [int |-> FALSE, n |-> 0]}

GenOutcomes == {"ok", "raise"}

\* The document collaborator of a request: absent, present with no document
\* identifier, or present with one and an outcome of the fetch.
GuidelineChoices ==
    {[helper |-> FALSE, doc_id |-> FALSE, d |-> "ok"],
     [helper |-> TRUE, doc_id |-> FALSE, d |-> "ok"]}
    \cup {[helper |-> TRUE, doc_id |-> TRUE, d |-> d] :
            d \in (IF service THEN DocOutcomes \ {"auth_raise"} ELSE DocOutcomes)}

Idle == h.pc = "idle"

--------------------------------------------------------------------------
(* The client's calls as actions *)

\* The outcomes to draw for a step: one placeholder when an earlier step
\* has already ended the call.
After(prev, outcomes) == IF prev \in {"OK", "ok", "-"} THEN outcomes ELSE {"-"}

ConnectChoices == IF imap = "None" THEN ConnectOutcomes ELSE {"-"}

SetSession(s) ==
    /\ imap' = s.imap
    /\ state' = s.state
    /\ selected' = s.selected
    /\ alive' = s.alive

\* No call is in progress and the last one's result has been taken.
Ready == res.op = "none" /\ h.pc = "idle"

GetUnreadEmailsCall ==
    /\ Ready
    /\ UNCHANGED <<fn, task, running>>
    /\ \E n \in 0..MaxMsgs, c \in ConnectChoices :
      \E sel \in After(c, Status) :
        \E sr \in (IF sel \in {"OK", "NO"} THEN Status ELSE {"-"}) :
          \E f \in (IF sr = "OK" THEN [1..Len(LatestN(Unseen, n)) -> Status] ELSE {<<>>}) :
            LET r == GetUnreadEmails(IntArg(n), c, sel, sr, f)
            IN  /\ SetSession(r.s)
                /\ seen' = r.seen
                /\ res' = r.res
                /\ UNCHANGED <<mail, service, h>>

CreateDraftReplyCall ==
    /\ Ready
    /\ UNCHANGED <<fn, task, running>>
    /\ \E subject \in {SUBJECT, None}, sm \in SmtpOutcomes :
      \E c \in (IF sm = "ok" /\ subject # None THEN ConnectChoices ELSE {"-"}) :
        \E sel \in (IF sm = "ok" /\ subject # None THEN After(c, Status) ELSE {"-"}) :
          \E app \in (IF sel \in {"OK", "NO"} THEN Status ELSE {"-"}) :
            \E q \in (IF app \in {"OK", "NO"} THEN {"ok", "raise"} ELSE {"-"}) :
              LET r == CreateDraftReply(OTHER_ADDRESS, subject, <<>>,
                         [smtp |-> sm, connect |-> c, select |-> sel, append |-> app,
                          quit |-> q])
              IN  /\ SetSession(r.s)
                  /\ res' = r.res
                  /\ UNCHANGED <<mail, seen, service, h>>

CloseCall ==
    /\ Ready
    /\ UNCHANGED <<fn, task, running>>
    /\ \E cl \in {"OK", "raise"}, lo \in {"OK", "raise"} :
      LET r == Close(cl, lo)
      IN  /\ SetSession(r.s)
          /\ res' = r.res
          /\ UNCHANGED <<mail, seen, service, h>>

--------------------------------------------------------------------------
(* The handlers' calls as actions.  A request is taken when no batch is    *)
(* being drafted.                                                          *)

\* tools/get_unread_emails.handle, server.py call_tool "get_unread_emails"
HandleGetUnreadEmails ==
    /\ Idle
    /\ UNCHANGED <<fn, task, running>>
    /\ \E max_results \in MaxResultsArgs, c \in ConnectChoices :
        \E sel \in After(c, Status) :
          \E sr \in (IF sel \in {"OK", "NO"} THEN Status ELSE {"-"}) :
            \E f \in (IF sr = "OK" /\ max_results.int
                      THEN [1..Len(LatestN(Unseen, max_results.n)) -> Status] ELSE {<<>>}) :
              LET r == GetUnreadEmails(max_results, c, sel, sr, f)
                  q == [NoReq EXCEPT !.tool = "get_unread_emails", !.get = r.res.outcome,
                                     !.to_me = r.res.to_me, !.cc_me = r.res.cc_me]
              IN  /\ SetSession(r.s)
                  /\ seen' = r.seen
                  /\ res' = r.res
                  /\ h' = ListUnseenResponse(q, r.res.outcome)
                  /\ UNCHANGED <<mail, service>>

\* tools/create_draft_reply.handle, server.py call_tool "create_draft_reply"
HandleCreateDraftReply ==
    /\ Idle
    /\ UNCHANGED <<fn, task, running>>
    /\ \E subject \in {SUBJECT, None}, gc \in GuidelineChoices, gen \in GenOutcomes :
        \E sm \in (IF gen = "ok" THEN SmtpOutcomes ELSE {"-"}) :
          \E c \in (IF sm = "ok" /\ subject # None THEN ConnectChoices ELSE {"-"}) :
            \E sel \in (IF sm = "ok" /\ subject # None THEN After(c, Status) ELSE {"-"}) :
              \E app \in (IF sel \in {"OK", "NO"} THEN Status ELSE {"-"}) :
                \E qt \in (IF app \in {"OK", "NO"} THEN {"ok", "raise"} ELSE {"-"}) :
                  LET g == FetchGuidelines(gc.helper, gc.doc_id, gc.d)
                      prompt == BuildReplyPrompt(OTHER_ADDRESS, subject, <<>>, g.text)
                      r == CreateDraftReply(OTHER_ADDRESS, subject, <<>>,
                             [smtp |-> sm, connect |-> c, select |-> sel,
                              append |-> app, quit |-> qt])
                      q0 == [NoReq EXCEPT !.tool = "create_draft_reply",
                                          !.guidelines = g.text, !.gsrc = g.src,
                                          !.guideFetches = g.fetches]
                      q == [q0 EXCEPT !.prompt = prompt.guidelines, !.genCalls = 1,
                                      !.gen = gen]
                  IN  /\ service' = g.service
                      /\ IF g.outcome = "raise"
                         THEN /\ h' = DraftOneResponse(q0, "raise")
                              /\ UNCHANGED <<imap, state, selected, alive, res>>
                         ELSE IF gen = "raise"
                         THEN /\ h' = DraftOneResponse(q, "raise")
                              /\ UNCHANGED <<imap, state, selected, alive, res>>
                         ELSE /\ SetSession(r.s)
                              /\ res' = r.res
                              /\ h' = DraftOneResponse(
                                        [q EXCEPT !.draftCalls = 1, !.draft = r.res.outcome],
                                        r.res.outcome)
                      /\ UNCHANGED <<mail, seen>>

\* get_unread_and_draft_replies: up to the start of the loop.
HandleDraftAllBegin ==
    /\ Idle
    /\ UNCHANGED <<fn, task, running>>
    /\ \E max_results \in MaxResultsArgs, c \in ConnectChoices :
        \E sel \in After(c, Status) :
          \E sr \in (IF sel \in {"OK", "NO"} THEN Status ELSE {"-"}) :
            \E f \in (IF sr = "OK" /\ max_results.int
                      THEN [1..Len(LatestN(Unseen, max_results.n)) -> Status] ELSE {<<>>}) :
              LET r == GetUnreadEmails(max_results, c, sel, sr, f)
                  q == [NoReq EXCEPT !.tool = "get_unread_and_draft_replies",
                                     !.get = r.res.outcome,
                                     !.to_me = r.res.to_me, !.cc_me = r.res.cc_me]
                  starts == r.res.outcome = "return" /\ ~NothingToDo(r.res.to_me)
              IN  /\ SetSession(r.s)
                  /\ seen' = r.seen
                  /\ res' = r.res
                  /\ UNCHANGED mail
                  /\ \E gc \in (IF starts THEN GuidelineChoices
                                 ELSE {[helper |-> FALSE, doc_id |-> FALSE, d |-> "ok"]}) :
                       LET g == FetchGuidelines(gc.helper, gc.doc_id, gc.d)
                       IN  IF r.res.outcome = "raise"
                           THEN h' = DraftAllError(q, "raise") /\ UNCHANGED service
                           ELSE IF NothingToDo(r.res.to_me)
                           THEN h' = Text(q, "No unread emails sent directly to you")
                                /\ UNCHANGED service
                           ELSE /\ service' = g.service
                                /\ h' = IF g.outcome = "raise"
                                        THEN DraftAllError([q EXCEPT !.gsrc = g.src], "raise")
                                        ELSE [q EXCEPT !.pc = "drafting", !.k = 1,
                                                       !.guidelines = g.text,
                                                       !.gsrc = g.src,
                                                       !.guideFetches = g.fetches]

\* get_unread_and_draft_replies: one iteration of the loop and, after the
\* last one, the summary.
HandleDraftAllStep ==
    /\ h.pc = "drafting"
    /\ UNCHANGED <<fn, task, running>>
    /\ h.k <= Len(h.to_me)
    /\ \E gen \in GenOutcomes :
        \E sm \in (IF gen = "ok" THEN SmtpOutcomes ELSE {"-"}) :
          \E c \in (IF sm = "ok" THEN ConnectChoices ELSE {"-"}) :
            \E sel \in (IF sm = "ok" THEN After(c, Status) ELSE {"-"}) :
              \E app \in (IF sel \in {"OK", "NO"} THEN Status ELSE {"-"}) :
                \E qt \in (IF app \in {"OK", "NO"} THEN {"ok", "raise"} ELSE {"-"}) :
                  LET email_item == mail[h.to_me[h.k]]
                      prompt == BuildReplyPrompt(OTHER_ADDRESS, email_item.subject, <<>>,
                                                 h.guidelines)
                      r == CreateDraftReply(OTHER_ADDRESS, email_item.subject, <<>>,
                             [smtp |-> sm, connect |-> c, select |-> sel,
                              append |-> app, quit |-> qt])
                      draft == IF gen = "raise" THEN "-" ELSE r.res.outcome
                      q == [h EXCEPT !.k = @ + 1,
                                     !.prompt = prompt.guidelines,
                                     !.genCalls = @ + 1,
                                     !.draftCalls = IF gen = "raise" THEN @ ELSE @ + 1,
                                     !.results = Append(@, DraftStatus(gen, draft)),
                                     !.cause = Append(@, Cause(gen, r.res))]
                  IN  /\ IF gen = "raise"
                         THEN UNCHANGED <<imap, state, selected, alive, res>>
                         ELSE SetSession(r.s) /\ res' = r.res
                      /\ h' = IF h.k = Len(h.to_me) THEN Text(q, "Processed") ELSE q
                      /\ UNCHANGED <<mail, seen, service>>

--------------------------------------------------------------------------
(* The pure functions of the client, applied to inputs of their own *)

NoFn == [op |-> "none", owner |-> <<>>, to |-> <<>>, cc |-> <<>>, bucket |-> "-",
         subject |-> <<>>, again |-> FALSE, reply_subject |-> <<>>,
         msg |-> <<>>, body |-> <<>>]

\* Owner addresses: self.email_address as configured.
Owners == {EMAIL_ADDRESS, OTHER_ADDRESS, <<"M", "@", "x">>}

\* Values of the To and Cc headers: empty, one address, or two separated by a
\* comma.  "am@x" is another person's address.
RecipientFields ==
    {<<>>, EMAIL_ADDRESS, OTHER_ADDRESS, <<"M", "@", "X">>, <<"a", "m", "@", "x">>,
     OTHER_ADDRESS \o <<",">> \o EMAIL_ADDRESS,
     <<"a", "m", "@", "x">> \o <<",">> \o OTHER_ADDRESS}

\* The classification of lines 92-98 applied to one message's fields.
ClassifyCall ==
    /\ fn.op = "none"
    /\ \E owner \in Owners, to_field \in RecipientFields, cc_field \in RecipientFields :
         fn' = [NoFn EXCEPT !.op = "classify", !.owner = owner, !.to = to_field,
                            !.cc = cc_field,
                            !.bucket = Classify(owner, to_field, cc_field)]
    /\ UNCHANGED <<mail, seen, imap, state, selected, alive, res, service, h, task, running>>

\* Subjects of messages to reply to.
Subjects ==
    {<<>>, <<"R">>, SUBJECT, <<"R", "e", ":">>, <<"R", "e", ":", "H", "i">>,
     <<"R", "E", ":", " ", "H", "i">>, <<"r", "e", ":", " ", "H", "i">>,
     <<"F", "w", ":", " ", "R", "e", ":">>}

\* Line 135 applied to a subject, or to the subject the last reply was given
\* (a reply to a reply).
ReplySubjectCall ==
    /\ fn.op \in {"none", "reply_subject"}
    /\ \E again \in (IF fn.op = "reply_subject" THEN {TRUE} ELSE {FALSE}) :
        \E subject \in (IF again THEN {fn.reply_subject} ELSE Subjects) :
          fn' = [NoFn EXCEPT !.op = "reply_subject", !.subject = subject, !.again = again,
                             !.reply_subject = ReplySubject(subject)]
    /\ UNCHANGED <<mail, seen, imap, state, selected, alive, res, service, h, task, running>>

\* _get_email_body applied to a parsed message.
GetEmailBodyCall ==
    /\ fn.op = "none"
    /\ \E msg \in MimeMessages :
         fn' = [NoFn EXCEPT !.op = "body", !.msg = msg, !.body = GetEmailBody(msg)]
    /\ UNCHANGED <<mail, seen, imap, state, selected, alive, res, service, h, task, running>>

\* The function's result has been taken.
FnReturn ==
    /\ fn.op # "none"
    /\ fn' = NoFn
    /\ UNCHANGED <<mail, seen, imap, state, selected, alive, res, service, h, task, running>>

--------------------------------------------------------------------------
(* Several tool requests in flight.  Each request is a task of the one     *)
(* event loop; a task runs until it reaches an await or its handler        *)
(* returns, and only then can the loop run another task.  The client's     *)
(* operations are taken one protocol command at a time.  pc names the      *)
(* command the task executes next.                                         *)

Tasks == 1..2

NoTask == [tool |-> "none", pc |-> "idle", ids |-> <<>>, k |-> 0, to_me |-> <<>>,
           todo |-> 0, sel |-> ""]

Tools == {"get_unread_emails", "create_draft_reply", "get_unread_and_draft_replies"}

\* Mutant: every command of the client gives the loop to other tasks.
SuspendsAtEveryCommand(pc) == TRUE

\* The handlers' only await: `guidelines = await fetch_guidelines(...)`.  The
\* client's methods are plain functions that await nothing.
Suspends(pc) == pc = "guidelines"

\* Task t may run: it holds the loop, or the loop is free.
Runnable(t) == task[t].pc # "idle" /\ running \in {0, t}

\* Task t goes on as tk: the loop is given up at an await and at the
\* handler's return.
Continue(t, tk) ==
    /\ task' = [task EXCEPT ![t] = tk]
    /\ running' = IF tk.pc = "idle" \/ Suspends(tk.pc) THEN 0 ELSE t

\* The handler after get_unread_emails has raised or returned its buckets.
AfterGet(tk, outcome, to_me) ==
    IF tk.tool = "get_unread_emails" \/ outcome = "raise" \/ NothingToDo(to_me)
    THEN NoTask
    ELSE [tk EXCEPT !.pc = "guidelines", !.todo = Len(to_me), !.sel = "", !.ids = <<>>,
                    !.k = 0, !.to_me = <<>>]

\* The handler after create_draft_reply, or the generation before it, has
\* raised or returned: the batch goes to its next message.
AfterDraft(tk) ==
    IF tk.tool = "get_unread_and_draft_replies" /\ tk.todo > 1
    THEN [tk EXCEPT !.pc = "generate", !.todo = @ - 1, !.sel = ""]
    ELSE NoTask

\* After one command of get_unread_emails or create_draft_reply raised.
Raise(tk) ==
    IF tk.pc \in {"g_connect", "g_select", "g_search"} THEN AfterGet(tk, "raise", <<>>)
    ELSE AfterDraft(tk)

\* A request arrives: call_tool starts a handler for it.
Arrive ==
    /\ \E t \in Tasks, tool \in Tools :
         /\ task[t].pc = "idle"
         /\ task' = [task EXCEPT ![t] =
                [NoTask EXCEPT !.tool = tool,
                               !.pc = IF tool = "create_draft_reply" THEN "guidelines"
                                      ELSE "g_connect"]]
    /\ UNCHANGED <<mail, seen, imap, state, selected, alive, res, service, h, fn, running>>

\* `if not self.imap: self.connect()` of either operation
StepConnect ==
    /\ \E t \in Tasks, c \in ConnectChoices :
         LET tk == task[t]
             r  == EnsureConnected(Session, c)
         IN  /\ Runnable(t)
             /\ tk.pc \in {"g_connect", "d_connect"}
             /\ SetSession(r.s)
             /\ Continue(t, IF r.outcome = "raise" THEN Raise(tk)
                            ELSE [tk EXCEPT !.pc = IF tk.pc = "g_connect" THEN "g_select"
                                                   ELSE "d_select"])
    /\ UNCHANGED <<mail, seen, res, service, h, fn>>

\* self.imap.select("INBOX"), self.imap.select('[Gmail]/Drafts')
StepSelect ==
    /\ \E t \in Tasks, e \in Status :
         LET tk == task[t]
             mailbox == IF tk.pc = "g_select" THEN "INBOX" ELSE "[Gmail]/Drafts"
             r  == Select(Session, mailbox, e)
         IN  /\ Runnable(t)
             /\ tk.pc \in {"g_select", "d_select"}
             /\ SetSession(r.s)
             /\ Continue(t, IF r.r = "raise" THEN Raise(tk)
                            ELSE [tk EXCEPT !.pc = IF tk.pc = "g_select" THEN "g_search"
                                                   ELSE "d_append",
                                            !.sel = IF r.r = "OK" THEN mailbox ELSE ""])
    /\ UNCHANGED <<mail, seen, res, service, h, fn>>

\* self.imap.search(None, "UNSEEN") and the slice of its result
StepSearch ==
    /\ \E t \in Tasks, e \in Status, max_results \in {IntArg(1), IntArg(DefaultMaxResults)} :
         LET tk == task[t]
             r  == Cmd(Session, {"SELECTED"}, e)
             email_ids == LatestN(Unseen, max_results.n)
         IN  /\ Runnable(t)
             /\ tk.pc = "g_search"
             /\ Continue(t, IF r = "raise" THEN Raise(tk)
                            ELSE IF r # "OK" \/ email_ids = <<>>
                            THEN AfterGet(tk, "return", <<>>)
                            ELSE [tk EXCEPT !.pc = "g_fetch", !.ids = email_ids, !.k = 1])
    /\ UNCHANGED <<mail, seen, imap, state, selected, alive, res, service, h, fn>>

\* One iteration of the loop: self.imap.fetch(email_id, "(RFC822)"), parsing
\* and classification.
StepFetch ==
    /\ \E t \in Tasks, e \in Status :
         LET tk == task[t]
             fr == Cmd(Session, {"SELECTED"}, e)
             a  == ProcessEmail([to_me |-> tk.to_me, cc_me |-> <<>>, seen |-> seen],
                                tk.ids[tk.k], fr)
         IN  /\ Runnable(t)
             /\ tk.pc = "g_fetch"
             /\ seen' = a.seen
             /\ Continue(t, IF tk.k = Len(tk.ids) THEN AfterGet(tk, "return", a.to_me)
                            ELSE [tk EXCEPT !.k = @ + 1, !.to_me = a.to_me])
    /\ UNCHANGED <<mail, imap, state, selected, alive, res, service, h, fn>>

\* The handler resumes with the result of `await fetch_guidelines(...)`.
StepGuidelines ==
    /\ \E t \in Tasks, gc \in GuidelineChoices :
         LET g == FetchGuidelines(gc.helper, gc.doc_id, gc.d)
         IN  /\ Runnable(t)
             /\ task[t].pc = "guidelines"
             /\ service' = g.service
             /\ task' = [task EXCEPT ![t].pc = "generate"]
             /\ running' = t
    /\ UNCHANGED <<mail, seen, imap, state, selected, alive, res, h, fn>>

\* anthropic_client.messages.create(...), a blocking call
StepGenerate ==
    /\ \E t \in Tasks, gen \in GenOutcomes :
         /\ Runnable(t)
         /\ task[t].pc = "generate"
         /\ Continue(t, IF gen = "raise" THEN Raise(task[t])
                        ELSE [task[t] EXCEPT !.pc = "d_smtp"])
    /\ UNCHANGED <<mail, seen, imap, state, selected, alive, res, service, h, fn>>

\* smtplib.SMTP_SSL(...), smtp.login(...) and the composition of the message
StepSmtp ==
    /\ \E t \in Tasks, sm \in SmtpOutcomes :
         /\ Runnable(t)
         /\ task[t].pc = "d_smtp"
         /\ Continue(t, IF sm # "ok" THEN Raise(task[t])
                        ELSE [task[t] EXCEPT !.pc = "d_connect"])
    /\ UNCHANGED <<mail, seen, imap, state, selected, alive, res, service, h, fn>>

\* self.imap.append('[Gmail]/Drafts', ...)
StepAppend ==
    /\ \E t \in Tasks, e \in Status :
         LET r == Cmd(Session, {"AUTH", "SELECTED"}, e)
         IN  /\ Runnable(t)
             /\ task[t].pc = "d_append"
             /\ Continue(t, IF r = "raise" THEN Raise(task[t])
                            ELSE [task[t] EXCEPT !.pc = "d_quit"])
    /\ UNCHANGED <<mail, seen, imap, state, selected, alive, res, service, h, fn>>

\* smtp.quit() and the return of create_draft_reply
StepQuit ==
    /\ \E t \in Tasks :
         /\ Runnable(t)
         /\ task[t].pc = "d_quit"
         /\ Continue(t, AfterDraft(task[t]))
    /\ UNCHANGED <<mail, seen, imap, state, selected, alive, res, service, h, fn>>

FnInit ==
    /\ mail = <<>>
    /\ seen = <<>>
    /\ imap = "None"
    /\ state = "NONE"
    /\ selected = ""
    /\ alive = FALSE
    /\ res = NoRes
    /\ service = FALSE
    /\ h = NoReq
    /\ fn = NoFn
    /\ task = [t \in Tasks |-> NoTask]
    /\ running = 0

FnNext == ClassifyCall \/ ReplySubjectCall \/ GetEmailBodyCall \/ FnReturn

FnSpec == FnInit /\ [][FnNext]_vars

Init ==
    /\ mail \in Inboxes
    /\ seen = [i \in 1..Len(mail) |-> FALSE]
    /\ imap = "None"
    /\ state = "NONE"
    /\ selected = ""
    /\ alive = FALSE
    /\ res = NoRes
    /\ service = FALSE
    /\ h = NoReq
    /\ fn = NoFn
    /\ task = [t \in Tasks |-> NoTask]
    /\ running = 0

\* The server with several requests in flight.
LoopNext ==
    \/ Arrive
    \/ StepConnect
    \/ StepSelect
    \/ StepSearch
    \/ StepFetch
    \/ StepGuidelines
    \/ StepGenerate
    \/ StepSmtp
    \/ StepAppend
    \/ StepQuit

LoopSpec == Init /\ [][LoopNext]_vars

\* The call has returned or raised: the caller takes the result.
Return ==
    /\ res.op # "none"
    /\ UNCHANGED <<fn, task, running>>
    /\ h.pc = "idle"
    /\ res' = NoRes
    /\ UNCHANGED <<mail, seen, imap, state, selected, alive, service, h>>

\* The mailbox client, called directly.
Next == GetUnreadEmailsCall \/ CreateDraftReplyCall \/ CloseCall \/ Return

Spec == Init /\ [][Next]_vars

\* The handler has returned: its result goes to the caller, its locals go.
Respond ==
    /\ h.pc = "done"
    /\ UNCHANGED <<fn, task, running>>
    /\ h' = NoReq
    /\ res' = NoRes
    /\ UNCHANGED <<mail, seen, imap, state, selected, alive, service>>

\* The server: tool requests, one at a time.
ServerNext ==
    \/ HandleGetUnreadEmails
    \/ HandleCreateDraftReply
    \/ HandleDraftAllBegin
    \/ HandleDraftAllStep
    \/ Respond

ServerSpec == Init /\ [][ServerNext]_vars

--------------------------------------------------------------------------
(* Properties of the mailbox client, checked under Spec *)

ToSet(s) == {s[i] : i \in 1..Len(s)}

NoDuplicates(s) == Cardinality(ToSet(s)) = Len(s)

\* The call whose result res holds went through the fetch loop.
Fetched == res.op = "get_unread_emails" /\ res.outcome = "return" /\ res.steps.search = "OK"

\* The selected messages whose parsing succeeds.
Parsable == {res.ids[k] : k \in {j \in 1..Len(res.ids) : mail[res.ids[j]].ok}}

\* The selected messages whose fetch answered OK and whose parsing succeeds.
FetchedAndParsable ==
    {res.ids[k] : k \in {j \in 1..Len(res.ids) : res.fetch[j] = "OK" /\ mail[res.ids[j]].ok}}

\* C1 as stated: the buckets hold exactly the selected messages whose parsing
\* succeeds, each in exactly one bucket; only a parse failure drops a message.
C1_OnlyParseFailureDrops ==
    Fetched =>
        /\ ToSet(res.to_me) \cup ToSet(res.cc_me) = Parsable
        /\ ToSet(res.to_me) \cap ToSet(res.cc_me) = {}
        /\ NoDuplicates(res.to_me \o res.cc_me)

\* C1 amended: the buckets hold exactly the selected messages whose fetch
\* answered OK and whose parsing succeeded, each once and in one bucket only; a
\* message is dropped only when its fetch fails (a non-OK status or an error)
\* or its parsing fails, and that changes nothing for the other messages.
C1_Partition ==
    Fetched =>
        /\ ToSet(res.to_me) \cup ToSet(res.cc_me) = FetchedAndParsable
        /\ ToSet(res.to_me) \cap ToSet(res.cc_me) = {}
        /\ NoDuplicates(res.to_me \o res.cc_me)
        /\ \A i \in ToSet(res.to_me) : Bucket(mail[i].to, mail[i].cc) = "to_me"
        /\ \A i \in ToSet(res.cc_me) : Bucket(mail[i].to, mail[i].cc) = "cc_me"

\* A batch whose first message fails (its parsing, or its fetch by raising) and
\* whose later message is returned in a bucket.
C1_Witness ==
    /\ Fetched
    /\ Len(res.ids) >= 2
    /\ res.fetch[1] = "raise" \/ (res.fetch[1] = "OK" /\ ~mail[res.ids[1]].ok)
    /\ res.ids[2] \in ToSet(res.to_me) \cup ToSet(res.cc_me)

\* C2: for every max_results >= 0, at most max_results messages are retrieved,
\* and they are the max_results highest ids of the search result, ascending.
C2_LatestN ==
    Fetched =>
        /\ Len(res.ids) <= res.max_results
        /\ \E from \in 0..Len(res.found) :
             /\ res.ids = SubSeq(res.found, from + 1, Len(res.found))
             /\ Len(res.ids) = IF res.max_results < Len(res.found)
                               THEN res.max_results ELSE Len(res.found)

\* What holds of the selection for max_results >= 1: at most max_results ids,
\* the highest of the search result, ascending.
LatestNWhenPositive == (Fetched /\ res.max_results >= 1) => C2_LatestN

\* C6 as stated: however the search fails (a non-OK status or an error raised),
\* the call returns two empty buckets.
C6_AnySearchFailureGivesEmpty ==
    (res.op = "get_unread_emails" /\ res.steps.search \in {"NO", "raise"}) =>
        (res.outcome = "return" /\ res.to_me = <<>> /\ res.cc_me = <<>>)

\* C6 amended: when the search reports a non-OK status the call returns two
\* empty buckets and fetches nothing; when the search raises, the error
\* propagates out of the call.
C6_SearchNotOK ==
    res.op = "get_unread_emails" =>
        /\ res.steps.search = "NO" =>
             (res.outcome = "return" /\ res.to_me = <<>> /\ res.cc_me = <<>>
              /\ res.ids = <<>>)
        /\ res.steps.search = "raise" => res.outcome = "raise"

\* The search answered NO on a mailbox that holds unseen messages.
C6_Witness ==
    /\ res.op = "get_unread_emails"
    /\ res.steps.search = "NO"
    /\ res.outcome = "return"
    /\ Unseen # <<>>

\* C7: create_draft_reply returns True only when the message was appended, and
\* never when the drafts folder's selection or the append reported a failure.
C7_FailsLoudly ==
    (res.op = "create_draft_reply" /\ res.outcome = "return") =>
        (res.appended /\ res.steps.select = "OK" /\ res.steps.append = "OK")

\* C9: a call that finds a connected session opens no other one, and a call
\* whose session command raises propagates it and does not reconnect.
C9_SessionReused ==
    res.op \in {"get_unread_emails", "create_draft_reply"} =>
        /\ res.before.alive => (res.opened = 0 /\ imap = "IMAP4_SSL")
        /\ res.before.imap = "IMAP4_SSL" => res.opened = 0
        /\ ("raise" \in {res.steps.select, res.steps.search, res.steps.append}) =>
             (res.outcome = "raise" /\ res.opened <= 1 /\ res.steps.quit = "-"
              /\ (res.opened = 1 => res.before.imap = "None"))

\* A call on a connected session whose select raises.
C9_Witness ==
    /\ res.op \in {"get_unread_emails", "create_draft_reply"}
    /\ res.before.alive
    /\ res.steps.select = "raise"
    /\ res.outcome = "raise"
    /\ res.opened = 0

\* C10: close() raises nothing when no session is open.
C10_CloseIsSafe ==
    (res.op = "close" /\ ~res.before.alive) => res.outcome = "return"

\* The call whose result res holds got as far as `if not self.imap`.
ReachedConnect ==
    \/ res.op = "get_unread_emails"
    \/ res.op = "create_draft_reply" /\ res.subject # <<>>

\* C15: the client holds a session handle only if that session is open and
\* authenticated, so a call that skips connect() because a handle is present
\* finds a logged-in session that has not been closed.
C15_HandleImpliesLoggedIn ==
    /\ imap # "None" => (alive /\ state \in {"AUTH", "SELECTED"})
    /\ (ReachedConnect /\ res.before.imap # "None") => res.before.alive

\* C16: every SMTP session create_draft_reply opens is ended before the call
\* finishes, whether the call returns or raises.
C16_SmtpAlwaysEnded ==
    res.op = "create_draft_reply" => res.smtp # "open"

\* What holds of the SMTP session: it is ended whenever the call gets as far
\* as smtp.quit(), which is whenever neither the SMTP login nor a session
\* command has raised.
SmtpEndedAfterAppend ==
    res.op = "create_draft_reply" =>
        /\ res.outcome = "return" => res.smtp = "closed"
        /\ res.smtp = "open" => res.outcome = "raise"

\* C17: get_unread_emails leaves the unseen state of every message as it was:
\* after the call the unseen messages are those its search found.
C17_UnseenUnchanged ==
    Fetched => Unseen = res.found

\* What holds of the unseen state: a message stops being unseen only by a
\* fetch of it that answered OK.
UnseenLostOnlyByFetch ==
    Fetched =>
        ToSet(Unseen) = ToSet(res.found) \
            {res.ids[k] : k \in {j \in 1..Len(res.ids) : res.fetch[j] = "OK"}}

--------------------------------------------------------------------------
(* Properties of the handlers, checked under ServerSpec *)

DraftAllDone == h.tool = "get_unread_and_draft_replies" /\ h.pc = "done"

\* C3: the batch gives one status entry per to_me message, a failed one for
\* each message whose generation or draft persistence failed and a success
\* one for each other message.
C3_OneStatusPerMessage ==
    (DraftAllDone /\ h.text = "Processed") =>
        /\ Len(h.results) = Len(h.to_me)
        /\ \A k \in 1..Len(h.results) :
             h.results[k] = IF h.cause[k] = "ok" THEN "Draft created" ELSE "Failed"

\* What holds of the batch: one entry per message, in order, and a failed one
\* exactly for the messages whose generation or draft call raised.
RaisedFailuresIsolated ==
    DraftAllDone =>
        \/ h.text # "Processed"
        \/ /\ Len(h.results) = Len(h.to_me)
           /\ h.genCalls = Len(h.to_me)
           /\ \A k \in 1..Len(h.results) :
                h.results[k] = IF h.cause[k] \in {"generation", "draft_raised"}
                               THEN "Failed" ELSE "Draft created"

\* C4: an empty to_me bucket gives "nothing to do" at once, with no guidelines
\* fetch, no reply generation and no draft call, whatever cc_me holds.
C4_EmptyToMe ==
    (h.tool = "get_unread_and_draft_replies" /\ h.get = "return" /\ h.to_me = <<>>) =>
        /\ h.pc = "done"
        /\ h.result = "text"
        /\ h.text = "No unread emails sent directly to you"
        /\ h.genCalls = 0 /\ h.guideFetches = 0 /\ h.draftCalls = 0
        /\ h.gsrc = "-"
        /\ res.op = "get_unread_emails"

\* The bucket to_me is empty and cc_me is not.
C4_Witness ==
    /\ DraftAllDone
    /\ h.get = "return"
    /\ h.to_me = <<>>
    /\ h.cc_me # <<>>

\* C5: every handler invocation ends with a text result, an error text when
\* the mailbox client, the generator or the arguments failed; none raises.
C5_NeverRaises ==
    /\ h.result # "raise"
    /\ h.pc = "done" =>
         /\ h.result = "text"
         /\ (h.tool = "get_unread_emails" /\ h.get = "raise") =>
              h.text = "Error fetching emails"
         /\ (h.tool = "create_draft_reply" /\ "raise" \in {h.gen, h.draft}) =>
              h.text = "Error creating draft reply"
         /\ (h.tool = "get_unread_and_draft_replies" /\ h.get = "raise") =>
              h.text = "Error"

\* The list handler was given a max_results that is no integer: the client
\* raised after its search, and the handler answered with the error text.
C5_Witness ==
    /\ h.pc = "done"
    /\ h.tool = "get_unread_emails"
    /\ h.get = "raise"
    /\ res.steps.search = "OK"
    /\ h.result = "text"

GuidelinesUnavailable == h.gsrc \in {"absent", "unset", "failed"}

\* C8: with the document collaborator absent, the identifier unset or the
\* fetch failing, the guidelines are empty and the handler goes on to the
\* prompt, the generation and the draft; the only failures reported are those
\* of the generation and of the draft.
C8_GuidelinesDegrade ==
    GuidelinesUnavailable =>
        /\ h.guidelines = <<>>
        /\ h.prompt = <<>>
        /\ h.tool = "create_draft_reply" =>
             /\ h.pc = "done" /\ h.genCalls = 1
             /\ (h.gen = "ok" /\ h.draft = "return") =>
                  (h.draftCalls = 1 /\ h.text = "Draft reply created successfully")
        /\ h.tool = "get_unread_and_draft_replies" =>
             /\ h.pc \in {"drafting", "done"}
             /\ h.pc = "done" => (h.text = "Processed" /\ Len(h.results) = Len(h.to_me))
             /\ h.genCalls = Len(h.results)
             /\ \A k \in 1..Len(h.results) :
                  h.results[k] = "Failed" => h.cause[k] \in {"generation", "draft_raised"}

\* The document fetch failed and the one-reply handler reported success.
C8_Witness ==
    /\ h.tool = "create_draft_reply"
    /\ h.gsrc = "failed"
    /\ h.pc = "done"
    /\ h.text = "Draft reply created successfully"
    /\ res.appended

--------------------------------------------------------------------------
(* Properties of the pure functions, checked under FnSpec *)

\* The addresses a To or Cc value lists: its comma-separated items, lowered.
AddressesOf(field) ==
    {Lower(SubSeq(field, i, j)) : <<i, j>> \in
        {p \in (1..Len(field)) \X (1..Len(field)) :
            /\ p[1] <= p[2]
            /\ \A k \in p[1]..p[2] : field[k] # ","
            /\ (p[1] = 1 \/ field[p[1] - 1] = ",")
            /\ (p[2] = Len(field) \/ field[p[2] + 1] = ",")}}

\* The bucket by address membership.
BucketByMembership(owner, to_field, cc_field) ==
    IF Lower(owner) \in AddressesOf(to_field) THEN "to_me"
    ELSE IF Lower(owner) \in AddressesOf(cc_field) THEN "cc_me"
    ELSE "to_me"

\* C11: the bucket is decided by address membership: to_me when the owner's
\* address is one of the addresses of `to` or of neither field, cc_me exactly
\* when it is one of `cc` and not of `to`; an address that is not the owner's
\* never counts as a match.
C11_AddressMembership ==
    fn.op = "classify" => fn.bucket = BucketByMembership(fn.owner, fn.to, fn.cc)

\* A recipient address that is not the owner's but contains it.
ContainsOwner(owner, field) ==
    \E a \in AddressesOf(field) : a # Lower(owner) /\ Contains(a, Lower(owner))

\* What holds of the classification: it is by address membership whenever no
\* other recipient's address contains the owner's.
MembershipWhenNoAddressContainsOwner ==
    (fn.op = "classify" /\ ~ContainsOwner(fn.owner, fn.to) /\ ~ContainsOwner(fn.owner, fn.cc))
        => fn.bucket = BucketByMembership(fn.owner, fn.to, fn.cc)

\* The subject begins with the three characters "Re:".
HasReplyPrefix(s) == Len(s) >= 3 /\ s[1] = "R" /\ s[2] = "e" /\ s[3] = ":"

\* C12: the draft subject is "Re: " + s when s does not begin with "Re:" and
\* s unchanged when it does; composing a reply to a subject that composing
\* produced adds no second prefix.
C12_ReplyPrefixOnce ==
    fn.op = "reply_subject" =>
        /\ fn.reply_subject = IF HasReplyPrefix(fn.subject) THEN fn.subject
                              ELSE <<"R", "e", ":", " ">> \o fn.subject
        /\ fn.again => fn.reply_subject = fn.subject

\* "Hi" became "Re: Hi", and composing the reply to that one left it as it was.
C12_Witness ==
    /\ fn.op = "reply_subject"
    /\ fn.again
    /\ fn.subject = <<"R", "e", ":", " ">> \o SUBJECT
    /\ fn.reply_subject = fn.subject

\* The leaves of a message in document order.
RECURSIVE LeavesInOrder(_)
LeavesInOrder(part) ==
    IF ~part.is_multipart THEN <<part>>
    ELSE IF part.parts = <<>> THEN <<>>
    ELSE LeavesInOrder(Head(part.parts)) \o LeavesInOrder(Multipart(Tail(part.parts)))

PlainParts(msg) == SelectSeq(LeavesInOrder(msg), LAMBDA p : p.content_type = "text/plain")

\* C13 as stated: the body of a multi-part message is the content of its
\* first plain-text part in depth-first order, and the body of every message,
\* multi-part or single-part, that has no plain-text part is empty.
C13_EmptyWithoutPlainPart ==
    fn.op = "body" =>
        /\ (fn.msg.is_multipart /\ PlainParts(fn.msg) # <<>>) =>
              fn.body = PlainParts(fn.msg)[1].payload
        /\ PlainParts(fn.msg) = <<>> => fn.body = <<>>

\* C13 amended: the body of a multi-part message is the content of its first
\* plain-text part in depth-first order, and empty when it has none; the body
\* of a single-part message is its payload, whatever its content type.
C13_BodyExtraction ==
    fn.op = "body" =>
        /\ (fn.msg.is_multipart /\ PlainParts(fn.msg) # <<>>) =>
              fn.body = PlainParts(fn.msg)[1].payload
        /\ (fn.msg.is_multipart /\ PlainParts(fn.msg) = <<>>) => fn.body = <<>>
        /\ ~fn.msg.is_multipart => fn.body = fn.msg.payload

\* A plain-text part nested in a container comes before a plain-text part of
\* the top level, and the body is the nested one's.
C13_Witness ==
    /\ fn.op = "body"
    /\ fn.msg = Multipart(<<Multipart(<<Html, PlainB>>), PlainA>>)
    /\ fn.body = PlainB.payload

--------------------------------------------------------------------------
(* Properties of the requests in flight, checked under LoopSpec *)

\* The task is between the first and the last protocol command of a client
\* operation.
InOperation(t) ==
    task[t].pc \in {"g_select", "g_search", "g_fetch",
                    "d_connect", "d_select", "d_append", "d_quit"}

\* The request of task t is in flight.
InFlight(t) == task[t].pc # "idle"

\* C14: with several requests in flight no two client operations are
\* interleaved: a task inside an operation holds the loop until the
\* operation's last command, so no other task is inside one, and the mailbox
\* the session has selected is the one that operation selected.
C14_NoInterleaving ==
    \A t \in Tasks :
        InOperation(t) =>
            /\ running = t
            /\ \A u \in Tasks \ {t} : ~InOperation(u)
            /\ task[t].sel # "" => (state = "SELECTED" /\ selected = task[t].sel)

\* One request is inside get_unread_emails, after its select of the INBOX,
\* while another is in flight, suspended at its await after an operation of
\* its own.
C14_Witness ==
    \E t \in Tasks, u \in Tasks :
        /\ t # u
        /\ task[t].pc = "g_fetch"
        /\ task[t].sel = "INBOX"
        /\ task[u].tool = "get_unread_and_draft_replies"
        /\ task[u].pc = "guidelines"

====
